---- MODULE Spec2Model ----
(***************************************************************************)
(* The two tutorial notebooks of modflow-dsd24 as sequential programs.     *)
(*                                                                         *)
(*   "asr"        One-Dimensional linear Aquifer Storage and Recovery      *)
(*                (asr_modflow6_1d.ipynb lines 1-892)                      *)
(*   "watershed"  Parallelization, NetCDF, and UGrid on a watershed        *)
(*                (asr_modflow6_1d.ipynb lines 894-2128)                   *)
(*                                                                         *)
(* A notebook is executed cell by cell, statement by statement: pc is the  *)
(* number of the statement to execute next (AsrStmt / WsStmt translate the *)
(* code cells), and there is one action per kind of statement.  The FloPy  *)
(* builder objects are modelled by what the calls record in them (sims),   *)
(* write_simulation / run_simulation by what they leave in the workspace   *)
(* directory (disk).  The simulator itself is opaque: its concentration    *)
(* output is any series over ConcValues.                                   *)
(*                                                                         *)
(* Numbers.  Quantities with a fractional part in the notebooks are kept   *)
(* in thousandths (Milli): delr = 0.5 is 500, npor = 0.25 is 250, times    *)
(* are in thousandths of a day.  Concentrations are kept in tenths of      *)
(* kg/m^3 (climit = 0.1 is 1, cs = 1 is 10).  The recharge rate is kept in *)
(* units of 1e-4 (max_recharge = 0.0001 is 1).  Squared distances are in   *)
(* m^2.                                                                    *)
(***************************************************************************)
EXTENDS Integers, Sequences, FiniteSets, TLC

(***************************************************************************)
(* Bounds of the model.  The notebook has tin = tout = 50 d (100 steps     *)
(* each); Exercise 2 asks the reader to vary the injection period.  The    *)
(* model draws tin from 1..MaxStepsIn steps of delt and tout from          *)
(* 1..MaxStepsOut steps of delt (both in thousandths of a day).  The       *)
(* watershed grid (nrow, ncol come from defaults.py, not in the            *)
(* repository's files) is GridRows x GridCols with at most MaxRiv river    *)
(* cells.                                                                  *)
(***************************************************************************)
MaxStepsIn == 2
MaxStepsOut == 2
GridRows == 2
GridCols == 5
MaxRiv == 2

Milli == 1000

(***************************************************************************)
(* Parameters of the ASR notebook (cell "Parameters").                     *)
(***************************************************************************)
L == 80
hR == 0
k == 20
H == 20
npor == 250
vavg == 1
U == (vavg * npor * H)
alphaL == 100
alphaT == alphaL \div 10
diffusion_coef == 0
cs == 10
cf == 0
delr == 500
delc == 1
nlay == 5
nrow == 1
delt == 500
climit == 1
modelname == "model1d"
gwfname == modelname \o "f"
gwtname == modelname \o "t"
modelws == "./" \o modelname

(***************************************************************************)
(* Parameters of the watershed notebook.  Period lengths are kept in years *)
(* (year = 365.25 d is the unit), so dt = 1000 * year is 1000.             *)
(***************************************************************************)
dx == 2500
dy == 2500
dist_from_riv == 10000
max_recharge == 1
nper == 10
nsteps == 1
dt == 1000
conc_start == 0
diffc == 0
alphal == 100
porosity == 350
ws_gwfname == "gwf"
split_dir == "simsplit"

\* Python's round(a / b) for positive integers a, b: to nearest, ties to even.
RoundDiv(a, b) ==
    LET q == a \div b
        r == a % b
    IN  IF 2 * r < b THEN q
        ELSE IF 2 * r > b THEN q + 1
        ELSE IF q % 2 = 0 THEN q ELSE q + 1

ncol == RoundDiv(L * Milli, delr)

\* z = np.linspace(0, -H, nlay + 1): z[i] = -i * H / nlay, in thousandths.
z == [i \in 0..nlay |-> 0 - ((i * H * Milli) \div nlay)]
botm == [i \in 1..nlay |-> z[i]]

\* Python indexing of a list kept as a TLA+ sequence: seq[i], negative i wraps.
PyIndex(seq, i) == IF i >= 0 THEN seq[i + 1] ELSE seq[Len(seq) + i + 1]

\* The concentrations the simulator may report in a cell: the injected water,
\* the limit itself, and the background.
ConcValues == {cf, climit, cs}

Sims == {"sim", "asrmodel.sim", "split_sim"}

VARIABLES notebook, pc, iter, sims, disk, log,
          tin, tout, nstepin, nstepout,
          ilay, wellin, wellout, chd0,
          c, times, itime, Vextracted, Vinjected,
          cellids, distance2d, mountain_idxs, valley_idxs,
          rch_orig, rch_mnt, rch_val

asrvars == <<tin, tout, nstepin, nstepout, ilay, wellin, wellout, chd0,
             c, times, itime, Vextracted, Vinjected>>
wsvars == <<cellids, distance2d, mountain_idxs, valley_idxs,
            rch_orig, rch_mnt, rch_val>>
vars == <<notebook, pc, iter, sims, disk, log, asrvars, wsvars>>

(***************************************************************************)
(* A simulation object that has not been constructed yet.                  *)
(***************************************************************************)
NoSim == [built |-> FALSE, sim_ws |-> "", args |-> <<>>, packages |-> <<>>,
          models |-> <<>>, solutions |-> <<>>, exchanges |-> <<>>,
          attrs |-> <<>>, rev |-> 0, nwrite |-> 0, nrun |-> 0]

NoDir == [input |-> [sim |-> "", rev |-> 0, perioddata |-> <<>>],
          output |-> [sim |-> "", rev |-> 0, conc |-> <<>>, times |-> <<>>]]

Dirs == {modelws, "model_dir", ".", split_dir}

\* gwf.name, gwt.name: the name a model object of simulation s was given.
ModelName(s, i) == sims[s].models[i].name

(***************************************************************************)
(* Statements.  Every statement is a record                                *)
(*   op    the kind of statement (the action that executes it)             *)
(*   sim   the simulation object it works on ("" for none)                 *)
(*   key   the package, list or output it names                            *)
(*   args  the keyword arguments of the call, evaluated when it executes   *)
(***************************************************************************)
Stmt(op, sim, key, args) == [op |-> op, sim |-> sim, key |-> key, args |-> args]

\* Mutant of wellin_entry: the total inflow is not divided over the layers.
wellin_entry_undivided(il) == << <<il, 0, 0>>, U, cf >>

\* wells, top level: wellin.append([(ilay, 0, 0), U / nlay, cf])
wellin_entry(il) == << <<il, 0, 0>>, U \div nlay, cf >>

\* constant head, top level: chd0.append([(ilay, 0, ncol - 1), hR, cs])
chd0_entry(il) == << <<il, 0, ncol - 1>>, hR, cs >>

\* wells in asrmodel, injection and extraction
asrmodel_wellin_entry(il) == << <<il, 0, 0>>, U \div nlay, cf >>

\* Mutant of asrmodel_wellout_entry: the sign of the extraction rate is lost.
asrmodel_wellout_entry_positive(il) == << <<il, 0, 0>>, U \div nlay, cf >>

asrmodel_wellout_entry(il) == << <<il, 0, 0>>, (0 - U) \div nlay, cf >>

\* Mutant of asrmodel_chd0_entry: the constant head is put one column off.
asrmodel_chd0_entry_offcol(il) == << <<il, 0, ncol - 2>>, hR, cs >>

asrmodel_chd0_entry(il) == << <<il, 0, ncol - 1>>, hR, cs >>

\* Mutant of gwt_ims_filename: the file name of the flow model's solver copied.
gwt_ims_filename_copied(s) == ModelName(s, 1) \o ".ims"

\* filename=gwt.name + '.ims' of the transport model's ModflowIms (gwt is the
\* second model of its simulation).
gwt_ims_filename(s) == ModelName(s, 2) \o ".ims"

(***************************************************************************)
(* The ASR notebook's code cells, in the order of the file.                *)
(* Statements 2..25 build the injection-only simulation at top level,      *)
(* statements 31..55 are the body of asrmodel(), executed by the call      *)
(* c, times = asrmodel().                                                  *)
(***************************************************************************)
AsrCell(n) ==
    CASE n = 1 -> Stmt("params", "", "nstepin", <<>>)
      \* ---- injection-only simulation, top level
      [] n = 2 -> Stmt("MFSimulation", "sim", "",
                       [sim_name |-> modelname, version |-> "mf6",
                        exe_name |-> "mf6", sim_ws |-> modelws])
      [] n = 3 -> Stmt("package", "sim", "tdis",
                       [time_units |-> "DAYS", nper |-> 1,
                        perioddata |-> << <<tin, nstepin, 1>> >>])
      [] n = 4 -> Stmt("model", "sim", "gwf",
                       [mtype |-> "gwf6", name |-> gwfname, save_flows |-> TRUE])
      [] n = 5 -> Stmt("package", "sim", "gwf_ims",
                       [filename |-> ModelName("sim", 1) \o ".ims",
                        linear_acceleration |-> "BICGSTAB"])
      [] n = 6 -> Stmt("register_ims_package", "sim", "gwf_ims",
                       [model_list |-> <<ModelName("sim", 1)>>])
      [] n = 7 -> Stmt("package", "sim", "gwf.dis",
                       [model |-> ModelName("sim", 1), nlay |-> nlay,
                        nrow |-> nrow, ncol |-> ncol, delr |-> delr,
                        delc |-> delc, top |-> z[0], botm |-> botm])
      [] n = 8 -> Stmt("package", "sim", "gwf.npf",
                       [model |-> ModelName("sim", 1), k |-> k,
                        save_flows |-> TRUE])
      [] n = 9 -> Stmt("package", "sim", "gwf.ic",
                       [model |-> ModelName("sim", 1), strt |-> hR])
      [] n = 10 -> Stmt("for_ilay", "", "wellin", wellin_entry(iter))
      [] n = 11 -> Stmt("package", "sim", "gwf.wel",
                        [model |-> ModelName("sim", 1),
                         stress_period_data |-> (0 :> wellin),
                         auxiliary |-> <<"CONCENTRATION">>, pname |-> "WEL1"])
      [] n = 12 -> Stmt("for_ilay", "", "chd0", chd0_entry(iter))
      [] n = 13 -> Stmt("package", "sim", "gwf.chd",
                        [model |-> ModelName("sim", 1),
                         stress_period_data |-> (0 :> chd0),
                         auxiliary |-> <<"CONCENTRATION">>, pname |-> "CHD1"])
      [] n = 14 -> Stmt("package", "sim", "gwf.oc",
                        [model |-> ModelName("sim", 1),
                         saverecord |-> << <<"HEAD", "ALL">>, <<"BUDGET", "ALL">> >>,
                         budget_filerecord |-> gwfname \o ".cbc",
                         head_filerecord |-> gwfname \o ".hds"])
      [] n = 15 -> Stmt("model", "sim", "gwt",
                        [mtype |-> "gwt6", name |-> gwtname])
      [] n = 16 -> Stmt("package", "sim", "gwt_ims",
                        [filename |-> gwt_ims_filename("sim"),
                         linear_acceleration |-> "BICGSTAB"])
      [] n = 17 -> Stmt("register_ims_package", "sim", "gwt_ims",
                        [model_list |-> <<ModelName("sim", 2)>>])
      [] n = 18 -> Stmt("package", "sim", "gwt.dis",
                        [model |-> ModelName("sim", 2), nlay |-> nlay,
                         nrow |-> nrow, ncol |-> ncol, delr |-> delr,
                         delc |-> delc, top |-> z[0], botm |-> botm])
      [] n = 19 -> Stmt("package", "sim", "gwt.mst",
                        [model |-> ModelName("sim", 2), porosity |-> npor,
                         save_flows |-> TRUE])
      [] n = 20 -> Stmt("package", "sim", "gwt.ic",
                        [model |-> ModelName("sim", 2), strt |-> cs])
      [] n = 21 -> Stmt("package", "sim", "gwt.ssm",
                        [model |-> ModelName("sim", 2),
                         sources |-> << <<"WEL1", "AUX", "CONCENTRATION">>,
                                        <<"CHD1", "AUX", "CONCENTRATION">> >>,
                         save_flows |-> TRUE, pname |-> "SSM1"])
      [] n = 22 -> Stmt("package", "sim", "gwt.adv",
                        [model |-> ModelName("sim", 2), scheme |-> "upstream",
                         pname |-> "ADV1"])
      [] n = 23 -> Stmt("package", "sim", "gwt.dsp",
                        [model |-> ModelName("sim", 2), alh |-> alphaL,
                         ath1 |-> alphaT, diffc |-> diffusion_coef,
                         pname |-> "DSP1"])
      [] n = 24 -> Stmt("package", "sim", "gwt.oc",
                        [model |-> ModelName("sim", 2),
                         saverecord |-> << <<"CONCENTRATION", "ALL">>,
                                           <<"BUDGET", "ALL">> >>,
                         budget_filerecord |-> gwtname \o ".cbc",
                         concentration_filerecord |-> gwtname \o ".ucn"])
      [] n = 25 -> Stmt("exchange", "sim", modelname \o ".gwfgwt",
                        [exgtype |-> "GWF6-GWT6",
                         exgmnamea |-> ModelName("sim", 1),
                         exgmnameb |-> ModelName("sim", 2),
                         filename |-> modelname \o ".gwfgwt"])
      \* ---- write input files and solve model
      [] n = 26 -> Stmt("write_simulation", "sim", "", <<>>)
      [] n = 27 -> Stmt("run_simulation", "sim", "", <<>>)
      \* ---- read head data, read concentration data
      [] n = 28 -> Stmt("load", "sim", "head", 1)
      [] n = 29 -> Stmt("load", "sim", "concentration", 2)
      \* ---- recovery phase: parameters modified or added
      [] n = 30 -> Stmt("params", "", "nstepout", <<>>)
      \* ---- def asrmodel(), called by c, times = asrmodel()
      [] n = 31 -> Stmt("MFSimulation", "asrmodel.sim", "",
                        [sim_name |-> modelname, version |-> "mf6",
                         exe_name |-> "mf6", sim_ws |-> modelws])
      [] n = 32 -> Stmt("package", "asrmodel.sim", "tdis",
                        [time_units |-> "DAYS", nper |-> 2,
                         perioddata |-> << <<tin, nstepin, 1>>,
                                           <<tout, nstepout, 1>> >>])
      [] n = 33 -> Stmt("model", "asrmodel.sim", "gwf",
                        [mtype |-> "gwf6", name |-> gwfname, save_flows |-> TRUE])
      [] n = 34 -> Stmt("package", "asrmodel.sim", "gwf_ims",
                        [filename |-> ModelName("asrmodel.sim", 1) \o ".ims",
                         linear_acceleration |-> "BICGSTAB"])
      [] n = 35 -> Stmt("register_ims_package", "asrmodel.sim", "gwf_ims",
                        [model_list |-> <<ModelName("asrmodel.sim", 1)>>])
      [] n = 36 -> Stmt("package", "asrmodel.sim", "gwf.dis",
                        [model |-> ModelName("asrmodel.sim", 1), nlay |-> nlay,
                         nrow |-> nrow, ncol |-> ncol, delr |-> delr,
                         delc |-> delc, top |-> z[0], botm |-> botm])
      [] n = 37 -> Stmt("package", "asrmodel.sim", "gwf.npf",
                        [model |-> ModelName("asrmodel.sim", 1), k |-> k,
                         save_flows |-> TRUE])
      [] n = 38 -> Stmt("package", "asrmodel.sim", "gwf.ic",
                        [model |-> ModelName("asrmodel.sim", 1), strt |-> hR])
      [] n = 39 -> Stmt("for_ilay", "", "wellin", asrmodel_wellin_entry(iter))
      [] n = 40 -> Stmt("for_ilay", "", "wellout", asrmodel_wellout_entry(iter))
      [] n = 41 -> Stmt("package", "asrmodel.sim", "gwf.wel",
                        [model |-> ModelName("asrmodel.sim", 1),
                         stress_period_data |-> (0 :> wellin) @@ (1 :> wellout),
                         auxiliary |-> <<"CONCENTRATION">>, pname |-> "WEL1"])
      [] n = 42 -> Stmt("for_ilay", "", "chd0", asrmodel_chd0_entry(iter))
      [] n = 43 -> Stmt("package", "asrmodel.sim", "gwf.chd",
                        [model |-> ModelName("asrmodel.sim", 1),
                         stress_period_data |-> (0 :> chd0),
                         auxiliary |-> <<"CONCENTRATION">>, pname |-> "CHD1"])
      [] n = 44 -> Stmt("package", "asrmodel.sim", "gwf.oc",
                        [model |-> ModelName("asrmodel.sim", 1),
                         saverecord |-> << <<"HEAD", "ALL">>, <<"BUDGET", "ALL">> >>,
                         budget_filerecord |-> gwfname \o ".cbc",
                         head_filerecord |-> gwfname \o ".hds"])
      [] n = 45 -> Stmt("model", "asrmodel.sim", "gwt",
                        [mtype |-> "gwt6", name |-> gwtname])
      [] n = 46 -> Stmt("package", "asrmodel.sim", "gwt_ims",
                        [filename |-> gwt_ims_filename("asrmodel.sim"),
                         linear_acceleration |-> "BICGSTAB"])
      [] n = 47 -> Stmt("register_ims_package", "asrmodel.sim", "gwt_ims",
                        [model_list |-> <<ModelName("asrmodel.sim", 2)>>])
      [] n = 48 -> Stmt("package", "asrmodel.sim", "gwt.dis",
                        [model |-> ModelName("asrmodel.sim", 2), nlay |-> nlay,
                         nrow |-> nrow, ncol |-> ncol, delr |-> delr,
                         delc |-> delc, top |-> z[0], botm |-> botm])
      [] n = 49 -> Stmt("package", "asrmodel.sim", "gwt.mst",
                        [model |-> ModelName("asrmodel.sim", 2), porosity |-> npor,
                         save_flows |-> TRUE])
      [] n = 50 -> Stmt("package", "asrmodel.sim", "gwt.ic",
                        [model |-> ModelName("asrmodel.sim", 2), strt |-> cs])
      [] n = 51 -> Stmt("package", "asrmodel.sim", "gwt.ssm",
                        [model |-> ModelName("asrmodel.sim", 2),
                         sources |-> << <<"WEL1", "AUX", "CONCENTRATION">>,
                                        <<"CHD1", "AUX", "CONCENTRATION">> >>,
                         save_flows |-> TRUE, pname |-> "SSM1"])
      [] n = 52 -> Stmt("package", "asrmodel.sim", "gwt.adv",
                        [model |-> ModelName("asrmodel.sim", 2),
                         scheme |-> "upstream", pname |-> "ADV1"])
      [] n = 53 -> Stmt("package", "asrmodel.sim", "gwt.dsp",
                        [model |-> ModelName("asrmodel.sim", 2), alh |-> alphaL,
                         ath1 |-> alphaT, diffc |-> diffusion_coef,
                         pname |-> "DSP1"])
      [] n = 54 -> Stmt("package", "asrmodel.sim", "gwt.oc",
                        [model |-> ModelName("asrmodel.sim", 2),
                         saverecord |-> << <<"CONCENTRATION", "ALL">>,
                                           <<"BUDGET", "ALL">> >>,
                         budget_filerecord |-> gwtname \o ".cbc",
                         concentration_filerecord |-> gwtname \o ".ucn"])
      [] n = 55 -> Stmt("exchange", "asrmodel.sim", modelname \o ".gwfgwt",
                        [exgtype |-> "GWF6-GWT6",
                         exgmnamea |-> ModelName("asrmodel.sim", 1),
                         exgmnameb |-> ModelName("asrmodel.sim", 2),
                         filename |-> modelname \o ".gwfgwt"])
      [] n = 56 -> Stmt("write_simulation", "asrmodel.sim", "", <<>>)
      [] n = 57 -> Stmt("run_simulation", "asrmodel.sim", "", <<>>)
      [] n = 58 -> Stmt("load", "asrmodel.sim", "concentration", 2)
      \* ---- recovery efficiency
      [] n = 59 -> Stmt("for_itime", "", "itime", <<>>)
      [] n = 60 -> Stmt("recovery_efficiency", "", "RE", <<>>)
      [] OTHER -> Stmt("end", "", "", <<>>)

\* Mutant of AsrOrder: at top level the simulator is run before the input
\* files are written.
AsrOrder_RunBeforeWrite(n) == IF n = 26 THEN 27 ELSE IF n = 27 THEN 26 ELSE n

\* The cells of a notebook are executed from the first to the last.
AsrOrder(n) == n

AsrStmt(n) == AsrCell(AsrOrder(n))

\* Mutant of AsrReads: the constant-head package is built from the column
\* count read back from the discretization package.
AsrReads_dis(n) ==
    CASE n \in {5, 6, 34, 35} -> {<<"gwf", "name">>}
      [] n \in {13, 43} -> {<<"gwf.dis", "ncol">>}
      [] n \in {16, 17, 46, 47} -> {<<"gwt", "name">>}
      [] n \in {25, 55} -> {<<"gwf", "name">>, <<"gwt", "name">>}
      [] n = 28 -> {<<"gwf", "output">>}
      [] n \in {29, 58} -> {<<"gwt", "output">>}
      [] OTHER -> {}

\* What statement n of AsrCell reads back from a builder object, as
\* <<object, attribute>>: gwf.name / gwt.name in the arguments of ModflowIms,
\* register_ims_package and ModflowGwfgwt, gwf.output / gwt.output in the
\* cells that load results.
AsrReads(n) ==
    CASE n \in {5, 6, 34, 35} -> {<<"gwf", "name">>}
      [] n \in {16, 17, 46, 47} -> {<<"gwt", "name">>}
      [] n \in {25, 55} -> {<<"gwf", "name">>, <<"gwt", "name">>}
      [] n = 28 -> {<<"gwf", "output">>}
      [] n \in {29, 58} -> {<<"gwt", "output">>}
      [] OTHER -> {}

(***************************************************************************)
(* The watershed grid: cells (row, col), row-major as numpy orders them.   *)
(***************************************************************************)
Cells == (0..(GridRows - 1)) \X (0..(GridCols - 1))

CellKey(cell) == cell[1] * GridCols + cell[2]

\* The cells of S as a list in row-major order (np.nonzero, zip).
RECURSIVE RowMajor(_)
RowMajor(S) ==
    IF S = {} THEN <<>>
    ELSE LET m == CHOOSE x \in S : \A y \in S : CellKey(x) <= CellKey(y)
         IN  <<m>> \o RowMajor(S \ {m})

\* Squared distance between the centers of two cells of the working grid.
Dist2(a, b) ==
    ((a[1] - b[1]) * dy) * ((a[1] - b[1]) * dy)
      + ((a[2] - b[2]) * dx) * ((a[2] - b[2]) * dx)

\* tree = KDTree(river_xy); distance, index = tree.query(grid_xy): for every
\* cell the distance to the nearest river cell, kept squared.
NearestRiver2(cell, river) ==
    LET ds == {Dist2(cell, r) : r \in river}
    IN  CHOOSE d \in ds : \A e \in ds : d <= e

\* Mutant of IsValley: the strict comparison of the plotting cell
\* (d2d_copy < dist_from_riv) is used for the valley.
IsValley_strict(d2) == d2 < dist_from_riv * dist_from_riv

\* distance2d > dist_from_riv, distance2d <= dist_from_riv (on squares)
IsMountain(d2) == d2 > dist_from_riv * dist_from_riv

IsValley(d2) == d2 <= dist_from_riv * dist_from_riv

\* def build_gwt_model(sim, gwtname, rch_package): statement i of the body,
\* for the transport model that becomes model m of the simulation.
build_gwt_model(i, gwtname_, rch_package, m) ==
    CASE i = 1 -> Stmt("model", "sim", gwtname_,
                       [mtype |-> "gwt6", name |-> gwtname_,
                        print_input |-> FALSE, save_flows |-> TRUE])
      [] i = 2 -> Stmt("package", "sim", gwtname_ \o ".dis",
                       [model |-> ModelName("sim", m), nlay |-> nlay,
                        nrow |-> GridRows, ncol |-> GridCols, delr |-> dx,
                        delc |-> dy, idomain |-> "idomain", top |-> "top_wg",
                        botm |-> "botm", xorigin |-> 0, yorigin |-> 0])
      [] i = 3 -> Stmt("package", "sim", gwtname_ \o ".ic",
                       [model |-> ModelName("sim", m), strt |-> conc_start,
                        filename |-> gwtname_ \o ".ic"])
      [] i = 4 -> Stmt("package", "sim", gwtname_ \o ".adv",
                       [model |-> ModelName("sim", m), scheme |-> "tvd",
                        filename |-> gwtname_ \o ".adv"])
      [] i = 5 -> Stmt("package", "sim", gwtname_ \o ".dsp",
                       [model |-> ModelName("sim", m), diffc |-> diffc,
                        alh |-> alphal, alv |-> alphal, ath1 |-> 0, atv |-> 0,
                        filename |-> gwtname_ \o ".dsp"])
      [] i = 6 -> Stmt("package", "sim", gwtname_ \o ".mst",
                       [model |-> ModelName("sim", m), porosity |-> porosity,
                        filename |-> gwtname_ \o ".mst"])
      [] i = 7 -> Stmt("package", "sim", gwtname_ \o ".ssm",
                       [model |-> ModelName("sim", m),
                        sources |-> << <<rch_package, "AUX", "CONCENTRATION">> >>,
                        filename |-> gwtname_ \o ".ssm"])
      [] OTHER -> Stmt("package", "sim", gwtname_ \o ".oc",
                       [model |-> ModelName("sim", m),
                        budget_filerecord |-> gwtname_ \o ".cbc",
                        concentration_filerecord |-> gwtname_ \o ".ucn",
                        saverecord |-> << <<"CONCENTRATION", "ALL">>,
                                          <<"BUDGET", "ALL">> >>])

\* Mutant of rch_original_recharge: the original recharge is not switched
\* off in stress period 1.
rch_original_recharge_kept == (0 :> rch_orig)

\* recharge={0 : rch_orig, 1 : 0.0} of the package rch_original.
rch_original_recharge == (0 :> rch_orig) @@ (1 :> [cell \in Cells |-> 0])

\* The two GWF-GWT exchanges: gwt_mnt is model 2 and gwt_val model 3 of sim.
gwfgwt_mnt ==
    [exgtype |-> "GWF6-GWT6", exgmnamea |-> ws_gwfname,
     exgmnameb |-> ModelName("sim", 2), filename |-> "gwfgwt_mnt.exg"]

\* Mutant of gwfgwt_val: the first exchange copied with only the file name
\* changed.
gwfgwt_val_copied ==
    [exgtype |-> "GWF6-GWT6", exgmnamea |-> ws_gwfname,
     exgmnameb |-> ModelName("sim", 2), filename |-> "gwfgwt_val.exg"]

gwfgwt_val ==
    [exgtype |-> "GWF6-GWT6", exgmnamea |-> ws_gwfname,
     exgmnameb |-> ModelName("sim", 3), filename |-> "gwfgwt_val.exg"]

(***************************************************************************)
(* The watershed notebook's code cells, in the order of the file.  Arrays  *)
(* that come from defaults.py and the data directory (idomain, top_wg,     *)
(* botm, hk, strt, drn_data, gw_discharge_data) are passed through to the  *)
(* builders and appear by name.                                            *)
(***************************************************************************)
WsCell(n) ==
    CASE n = 1 -> Stmt("kdtree", "", "distance2d", <<>>)
      [] n = 2 -> Stmt("classify", "", "idxs", <<>>)
      [] n = 3 -> Stmt("rch_orig", "", "rch_orig", <<>>)
      [] n = 4 -> Stmt("for_idx", "", "rch_mnt", <<>>)
      [] n = 5 -> Stmt("for_idx", "", "rch_val", <<>>)
      \* ---- build the FloPy simulation
      [] n = 6 -> Stmt("MFSimulation", "sim", "",
                       [sim_ws |-> "model_dir", exe_name |-> "mf6",
                        memory_print_option |-> "summary"])
      [] n = 7 -> Stmt("package", "sim", "tdis",
                       [nper |-> nper,
                        perioddata |-> [p \in 1..nper |-> <<nsteps * dt, nsteps, 1>>]])
      [] n = 8 -> Stmt("package", "sim", "imsgwf",
                       [complexity |-> "simple", print_option |-> "SUMMARY",
                        linear_acceleration |-> "bicgstab",
                        outer_maximum |-> 1000, inner_maximum |-> 100,
                        outer_dvclose |-> "1e-4", inner_dvclose |-> "1e-5",
                        filename |-> ws_gwfname \o ".ims"])
      [] n = 9 -> Stmt("model", "sim", "gwf",
                       [mtype |-> "gwf6", name |-> ws_gwfname,
                        print_input |-> FALSE, save_flows |-> TRUE,
                        newtonoptions |-> "NEWTON UNDER_RELAXATION"])
      [] n = 10 -> Stmt("package", "sim", "gwf.dis",
                        [model |-> ModelName("sim", 1), nlay |-> nlay,
                         nrow |-> GridRows, ncol |-> GridCols, delr |-> dx,
                         delc |-> dy, idomain |-> "idomain", top |-> "top_wg",
                         botm |-> "botm", xorigin |-> 0, yorigin |-> 0])
      [] n = 11 -> Stmt("package", "sim", "gwf.ic",
                        [model |-> ModelName("sim", 1), strt |-> "strt"])
      [] n = 12 -> Stmt("package", "sim", "gwf.npf",
                        [model |-> ModelName("sim", 1),
                         save_specific_discharge |-> TRUE, icelltype |-> 1,
                         k |-> "hk"])
      [] n = 13 -> Stmt("package", "sim", "gwf.sto",
                        [model |-> ModelName("sim", 1), save_flows |-> TRUE,
                         iconvert |-> 1, ss |-> "0.00001", sy |-> "0.35",
                         steady_state |-> (0 :> TRUE),
                         transient |-> (1 :> TRUE)])
      [] n = 14 -> Stmt("package", "sim", "gwf.rch_original",
                        [model |-> ModelName("sim", 1), pname |-> "rch_original",
                         recharge |-> rch_original_recharge,
                         filename |-> "gwf_original.rch"])
      [] n = 15 -> Stmt("package", "sim", "gwf.rch_mountain",
                        [model |-> ModelName("sim", 1), pname |-> "rch_mountain",
                         recharge |-> (1 :> rch_mnt),
                         auxiliary |-> "CONCENTRATION", aux |-> (1 :> 10),
                         filename |-> "gwf_mountain.rch"])
      [] n = 16 -> Stmt("package", "sim", "gwf.rch_valley",
                        [model |-> ModelName("sim", 1), pname |-> "rch_valley",
                         recharge |-> (1 :> rch_val),
                         auxiliary |-> "CONCENTRATION", aux |-> (1 :> 10),
                         filename |-> "gwf_valley.rch"])
      [] n = 17 -> Stmt("package", "sim", "gwf.river",
                        [model |-> ModelName("sim", 1),
                         stress_period_data |-> "drn_data", pname |-> "river",
                         filename |-> ws_gwfname \o "_riv.drn"])
      [] n = 18 -> Stmt("package", "sim", "gwf.gwd",
                        [model |-> ModelName("sim", 1),
                         auxiliary |-> <<"depth">>, auxdepthname |-> "depth",
                         stress_period_data |-> "gw_discharge_data",
                         pname |-> "gwd",
                         filename |-> ws_gwfname \o "_gwd.drn"])
      [] n = 19 -> Stmt("package", "sim", "gwf.oc",
                        [model |-> ModelName("sim", 1),
                         head_filerecord |-> ModelName("sim", 1) \o ".hds",
                         budget_filerecord |-> ModelName("sim", 1) \o ".cbc",
                         saverecord |-> << <<"HEAD", "ALL">>, <<"BUDGET", "ALL">> >>,
                         printrecord |-> << <<"BUDGET", "ALL">> >>])
      [] n = 20 -> Stmt("register_ims_package", "sim", "imsgwf",
                        [model_list |-> <<ModelName("sim", 1)>>])
      \* ---- two groundwater transport models
      [] n = 21 -> Stmt("package", "sim", "imsgwt",
                        [complexity |-> "complex", print_option |-> "SUMMARY",
                         linear_acceleration |-> "bicgstab",
                         outer_maximum |-> 1000, inner_maximum |-> 100,
                         outer_dvclose |-> "1e-4", inner_dvclose |-> "1e-5",
                         filename |-> "gwt.ims"])
      [] n \in 22..29 -> build_gwt_model(n - 21, "gwt_mnt", "rch_mountain", 2)
      [] n = 30 -> Stmt("register_ims_package", "sim", "imsgwt",
                        [model_list |-> <<ModelName("sim", 2)>>])
      [] n \in 31..38 -> build_gwt_model(n - 30, "gwt_val", "rch_valley", 3)
      [] n = 39 -> Stmt("register_ims_package", "sim", "imsgwt",
                        [model_list |-> <<ModelName("sim", 3)>>])
      \* ---- the GWF-GWT exchanges
      [] n = 40 -> Stmt("exchange", "sim", "gwfgwt_mnt.exg", gwfgwt_mnt)
      [] n = 41 -> Stmt("exchange", "sim", "gwfgwt_val.exg", gwfgwt_val)
      [] n = 42 -> Stmt("utility", "sim", "get_model_cell_count", <<>>)
      \* ---- write the model files, run the model
      [] n = 43 -> Stmt("write_simulation", "sim", "", <<>>)
      [] n = 44 -> Stmt("run_simulation", "sim", "", <<>>)
      \* ---- plots and results
      [] n = 45 -> Stmt("utility", "sim", "PlotCrossSection", <<>>)
      [] n = 46 -> Stmt("load", "sim", "head", 1)
      [] n = 47 -> Stmt("utility", "sim", "PlotMapView", <<>>)
      [] n = 48 -> Stmt("utility", "sim", "PlotCrossSection", <<>>)
      [] n = 49 -> Stmt("load", "sim", "budget", 1)
      [] n = 50 -> Stmt("load", "sim", "concentration", 2)
      [] n = 51 -> Stmt("load", "sim", "concentration", 3)
      [] n = 52 -> Stmt("utility", "sim", "PlotCrossSection", <<>>)
      [] n = 53 -> Stmt("load", "sim", "concentration", 2)
      [] n = 54 -> Stmt("utility", "sim", "PlotCrossSection", <<>>)
      \* ---- NetCDF activation
      [] n = 55 -> Stmt("setattr", "sim", "gwf.export_netcdf", "EXPORT_NETCDF UGRID")
      [] n = 56 -> Stmt("setattr", "sim", "tdis.start_date_time", "1980-01-01")
      \* ---- model splitter, parallel run
      [] n = 57 -> Stmt("split_multi_model", "split_sim", "sim", <<>>)
      [] n = 58 -> Stmt("set_sim_path", "split_sim", "", split_dir)
      [] n = 59 -> Stmt("write_simulation", "split_sim", "", <<>>)
      [] n = 60 -> Stmt("run_simulation", "split_sim", "", <<>>)
      [] n = 61 -> Stmt("load", "split_sim", "netcdf", 1)
      [] OTHER -> Stmt("end", "", "", <<>>)

\* Mutant of WsOrder: the parallel run is started on sim, not on split_sim.
WsOrder_RunsSimAgain(n) == IF n = 60 THEN 44 ELSE n

\* Mutant of WsOrder: split_sim is written before its path is set.
WsOrder_PathAfterWrite(n) == IF n = 58 THEN 59 ELSE IF n = 59 THEN 58 ELSE n

\* The cells of a notebook are executed from the first to the last.
WsOrder(n) == n

WsStmt(n) == WsCell(WsOrder(n))

\* What statement n of WsCell reads back from a builder object: gwf.name in
\* ModflowGwfoc and register_ims_package, gwt_mnt.name / gwt_val.name in
\* register_ims_package and ModflowGwfgwt, the output accessors, gwf.modelgrid,
\* sim.get_model and sim.get_package.
WsReads(n) ==
    CASE n \in {19, 20} -> {<<"gwf", "name">>}
      [] n \in {30, 40} -> {<<"gwt_mnt", "name">>}
      [] n \in {39, 41} -> {<<"gwt_val", "name">>}
      [] n \in {46, 49} -> {<<"gwf", "output">>}
      [] n = 47 -> {<<"gwf", "modelgrid">>}
      [] n \in {50, 53} -> {<<"sim", "get_model">>, <<"gwt_mnt", "output">>}
      [] n = 51 -> {<<"sim", "get_model">>, <<"gwt_val", "output">>}
      [] n = 55 -> {<<"sim", "get_model">>}
      [] n = 56 -> {<<"sim", "get_package">>}
      [] OTHER -> {}

Cur == IF notebook = "asr" THEN AsrStmt(pc) ELSE WsStmt(pc)

\* What the statement being executed reads back from builder objects.
Reads == IF notebook = "asr" THEN AsrReads(AsrOrder(pc)) ELSE WsReads(WsOrder(pc))

Event(op, s, key, src) ==
    [op |-> op, sim |-> s, key |-> key, src |-> src,
     rev |-> IF s \in Sims THEN sims[s].rev ELSE 0, reads |-> Reads]

\* nstepin = round(tin / delt), nstepout = round(tout / delt)
NSteps(t) == RoundDiv(t, delt)

\* The simulation times the simulator reports for a TDIS perioddata
\* [[perlen, nstp, tsmult = 1], ...]: the end of every time step, in the unit
\* of perlen.
RECURSIVE TimesFrom(_, _, _)
TimesFrom(pd, p, t0) ==
    IF p > Len(pd) THEN <<>>
    ELSE LET perlen == pd[p][1]
             nstp == pd[p][2]
         IN  [j \in 1..nstp |-> t0 + ((j * perlen) \div nstp)]
               \o TimesFrom(pd, p + 1, t0 + perlen)

Times(pd) == TimesFrom(pd, 1, 0)

\* What write_simulation leaves in the workspace: the serialized configuration
\* of simulation s as it is at the moment of the call.
Snapshot(s) ==
    [sim |-> s, rev |-> sims[s].rev,
     perioddata |-> IF "tdis" \in DOMAIN sims[s].packages
                    THEN sims[s].packages["tdis"].perioddata ELSE <<>>]

\* Mutant of LoopBreaks: the offset of the extraction period is dropped from
\* the index, so the test reads the injection period.
LoopBreaksNoOffset(cc, i) == PyIndex(cc, i - nstepin) > climit

\* if c[itime, 0, 0] > climit: break
LoopBreaks(cc, i) == PyIndex(cc, i) > climit

\* Vextracted = (times[itime - 1] - tin) * U
VextractedOf(tt, it) == (PyIndex(tt, it - 1) - tin) * U

\* Vinjected = tin * U
VinjectedOf == tin * U

\* The grid cells the river segments intersect (intersect_segments): any
\* non-empty set of at most MaxRiv cells.
RiverChoices == {S \in SUBSET Cells : Cardinality(S) \in 1..MaxRiv}

Init ==
    /\ notebook \in {"asr", "watershed"}
    /\ pc = 1
    /\ iter = 0
    /\ sims = [s \in Sims |-> NoSim]
    /\ disk = [d \in Dirs |-> NoDir]
    /\ log = <<>>
    /\ tin \in (IF notebook = "asr" THEN {h * delt : h \in 1..MaxStepsIn} ELSE {0})
    /\ tout \in (IF notebook = "asr" THEN {h * delt : h \in 1..MaxStepsOut} ELSE {0})
    /\ nstepin = 0
    /\ nstepout = 0
    /\ ilay = 0
    /\ wellin = <<>>
    /\ wellout = <<>>
    /\ chd0 = <<>>
    /\ c = <<>>
    /\ times = <<>>
    /\ itime = 0
    /\ Vextracted = 0
    /\ Vinjected = 0
    /\ cellids \in (IF notebook = "watershed" THEN RiverChoices ELSE {{}})
    /\ distance2d = <<>>
    /\ mountain_idxs = <<>>
    /\ valley_idxs = <<>>
    /\ rch_orig = <<>>
    /\ rch_mnt = <<>>
    /\ rch_val = <<>>

Advance == pc' = pc + 1 /\ iter' = 0

\* Parameter cells: the step counts are computed from tin, tout and delt.
Params ==
    /\ Cur.op = "params"
    /\ nstepin' = NSteps(tin)
    /\ nstepout' = IF Cur.key = "nstepout" THEN NSteps(tout) ELSE nstepout
    /\ Advance
    /\ UNCHANGED wsvars
    /\ UNCHANGED <<notebook, sims, disk, log, tin, tout, ilay, wellin, wellout,
                   chd0, c, times, itime, Vextracted, Vinjected>>

\* sim = MFSimulation(...)
MFSimulation ==
    /\ Cur.op = "MFSimulation"
    /\ sims' = [sims EXCEPT ![Cur.sim] =
                  [NoSim EXCEPT !.built = TRUE, !.sim_ws = Cur.args.sim_ws,
                                !.args = Cur.args]]
    /\ log' = Append(log, Event("construct", Cur.sim, "", <<"", 0>>))
    /\ Advance
    /\ UNCHANGED wsvars
    /\ UNCHANGED <<notebook, disk, asrvars>>

\* A package constructor (ModflowTdis, ModflowIms, ModflowGwfdis, ...): the
\* package with its arguments is added to the simulation.
Package ==
    /\ Cur.op = "package"
    /\ sims' = [sims EXCEPT ![Cur.sim].packages = (Cur.key :> Cur.args) @@ @,
                            ![Cur.sim].rev = @ + 1]
    /\ log' = Append(log, Event("config", Cur.sim, Cur.key, <<"", 0>>))
    /\ Advance
    /\ UNCHANGED wsvars
    /\ UNCHANGED <<notebook, disk, asrvars>>

\* A model constructor (ModflowGwf, ModflowGwt): the model is added to the
\* simulation.
Model ==
    /\ Cur.op = "model"
    /\ sims' = [sims EXCEPT ![Cur.sim].models = Append(@, Cur.args),
                            ![Cur.sim].rev = @ + 1]
    /\ log' = Append(log, Event("config", Cur.sim, Cur.key, <<"", 0>>))
    /\ Advance
    /\ UNCHANGED wsvars
    /\ UNCHANGED <<notebook, disk, asrvars>>

\* sim.register_ims_package(solution_file, model_list)
RegisterIms ==
    /\ Cur.op = "register_ims_package"
    /\ sims' = [sims EXCEPT ![Cur.sim].solutions =
                  Append(@, [file |-> sims[Cur.sim].packages[Cur.key].filename,
                             models |-> Cur.args.model_list]),
                            ![Cur.sim].rev = @ + 1]
    /\ log' = Append(log, Event("config", Cur.sim, Cur.key, <<"", 0>>))
    /\ Advance
    /\ UNCHANGED wsvars
    /\ UNCHANGED <<notebook, disk, asrvars>>

\* ModflowGwfgwt(sim, exgtype, exgmnamea, exgmnameb, filename)
Exchange ==
    /\ Cur.op = "exchange"
    /\ sims' = [sims EXCEPT ![Cur.sim].exchanges = Append(@, Cur.args),
                            ![Cur.sim].rev = @ + 1]
    /\ log' = Append(log, Event("config", Cur.sim, Cur.key, <<"", 0>>))
    /\ Advance
    /\ UNCHANGED wsvars
    /\ UNCHANGED <<notebook, disk, asrvars>>

\* lst = []; for ilay in range(nlay): lst.append(entry) -- one iteration, or
\* the end of the loop.
ForIlay ==
    /\ Cur.op = "for_ilay"
    /\ LET lst == IF Cur.key = "wellin" THEN wellin
                  ELSE IF Cur.key = "wellout" THEN wellout ELSE chd0
           base == IF iter = 0 THEN <<>> ELSE lst
           new == IF iter < nlay THEN Append(base, Cur.args) ELSE base
       IN  /\ wellin' = IF Cur.key = "wellin" THEN new ELSE wellin
           /\ wellout' = IF Cur.key = "wellout" THEN new ELSE wellout
           /\ chd0' = IF Cur.key = "chd0" THEN new ELSE chd0
    /\ IF iter < nlay
       THEN ilay' = iter /\ iter' = iter + 1 /\ pc' = pc
       ELSE ilay' = ilay /\ Advance
    /\ UNCHANGED wsvars
    /\ UNCHANGED <<notebook, sims, disk, log, tin, tout, nstepin, nstepout,
                   c, times, itime, Vextracted, Vinjected>>

\* sim.write_simulation(): the configuration is serialized into sim_ws.
WriteSimulation ==
    /\ Cur.op = "write_simulation"
    /\ disk' = [disk EXCEPT ![sims[Cur.sim].sim_ws].input = Snapshot(Cur.sim)]
    /\ sims' = [sims EXCEPT ![Cur.sim].nwrite = @ + 1]
    /\ log' = Append(log, Event("write", Cur.sim, "", <<Cur.sim, sims[Cur.sim].rev>>))
    /\ Advance
    /\ UNCHANGED wsvars
    /\ UNCHANGED <<notebook, asrvars>>

\* The output the simulator may produce from the input files in a directory.
Outputs(in) ==
    LET tt == Times(in.perioddata)
    IN  IF notebook = "asr"
        THEN {[sim |-> in.sim, rev |-> in.rev, conc |-> cc, times |-> tt] :
                 cc \in [1..Len(tt) -> ConcValues]}
        ELSE {[sim |-> in.sim, rev |-> in.rev, conc |-> <<>>, times |-> tt]}

\* sim.run_simulation(): the simulator is run in sim_ws on the input files
\* found there and writes its output files there.
RunSimulation ==
    /\ Cur.op = "run_simulation"
    /\ LET ws == sims[Cur.sim].sim_ws
           in == disk[ws].input
       IN  /\ IF in.sim = ""
              THEN disk' = disk
              ELSE \E out \in Outputs(in) : disk' = [disk EXCEPT ![ws].output = out]
           /\ log' = Append(log, Event("run", Cur.sim, "", <<in.sim, in.rev>>))
    /\ sims' = [sims EXCEPT ![Cur.sim].nrun = @ + 1]
    /\ Advance
    /\ UNCHANGED wsvars
    /\ UNCHANGED <<notebook, asrvars>>

\* gwf.output.head(), gwt.output.concentration(): the binary output found in
\* the simulation's workspace is read; get_alldata / get_times.
Load ==
    /\ Cur.op = "load"
    /\ LET out == disk[sims[Cur.sim].sim_ws].output
       IN  /\ times' = IF Cur.key \in {"head", "concentration"}
                       THEN out.times ELSE times
           /\ c' = IF Cur.key = "concentration" THEN out.conc ELSE c
           /\ log' = Append(log, Event("load", Cur.sim, Cur.key, <<out.sim, out.rev>>))
    /\ Advance
    /\ UNCHANGED wsvars
    /\ UNCHANGED <<notebook, sims, disk, tin, tout, nstepin, nstepout, ilay,
                   wellin, wellout, chd0, itime, Vextracted, Vinjected>>

\* for itime in range(nstepin, nstepin + nstepout):
\*     if c[itime, 0, 0] > climit: break
\* One iteration, or the end of the range.
ForItime ==
    /\ Cur.op = "for_itime"
    /\ LET v == nstepin + iter
       IN  IF v >= nstepin + nstepout
           THEN itime' = itime /\ Advance
           ELSE /\ itime' = v
                /\ IF LoopBreaks(c, v)
                   THEN Advance
                   ELSE iter' = iter + 1 /\ pc' = pc
    /\ UNCHANGED wsvars
    /\ UNCHANGED <<notebook, sims, disk, log, tin, tout, nstepin, nstepout, ilay,
                   wellin, wellout, chd0, c, times, Vextracted, Vinjected>>

\* Vextracted, Vinjected (RE = Vextracted / Vinjected)
RecoveryEfficiency ==
    /\ Cur.op = "recovery_efficiency"
    /\ Vextracted' = VextractedOf(times, itime)
    /\ Vinjected' = VinjectedOf
    /\ Advance
    /\ UNCHANGED wsvars
    /\ UNCHANGED <<notebook, sims, disk, log, tin, tout, nstepin, nstepout, ilay,
                   wellin, wellout, chd0, c, times, itime>>

\* distance, index = tree.query(grid_xy); distance2d = distance.reshape(...)
KDTreeQuery ==
    /\ Cur.op = "kdtree"
    /\ distance2d' = [cell \in Cells |-> NearestRiver2(cell, cellids)]
    /\ Advance
    /\ UNCHANGED <<notebook, sims, disk, log, asrvars, cellids, mountain_idxs,
                   valley_idxs, rch_orig, rch_mnt, rch_val>>

\* mountain_idxs, valley_idxs: the cell indexes away from and near the rivers
Classify ==
    /\ Cur.op = "classify"
    /\ mountain_idxs' = RowMajor({cell \in Cells : IsMountain(distance2d[cell])})
    /\ valley_idxs' = RowMajor({cell \in Cells : IsValley(distance2d[cell])})
    /\ Advance
    /\ UNCHANGED <<notebook, sims, disk, log, asrvars, cellids, distance2d,
                   rch_orig, rch_mnt, rch_val>>

\* rch_orig = max_recharge * np.ones((nrow, ncol))
RchOrig ==
    /\ Cur.op = "rch_orig"
    /\ rch_orig' = [cell \in Cells |-> max_recharge * 1]
    /\ Advance
    /\ UNCHANGED <<notebook, sims, disk, log, asrvars, cellids, distance2d,
                   mountain_idxs, valley_idxs, rch_mnt, rch_val>>

\* rch = np.zeros((nrow, ncol)); for idx in idxs: rch[idx[0], idx[1]] =
\* max_recharge -- one iteration, or the end of the loop.
ForIdx ==
    /\ Cur.op = "for_idx"
    /\ LET idxs == IF Cur.key = "rch_mnt" THEN mountain_idxs ELSE valley_idxs
           arr == IF Cur.key = "rch_mnt" THEN rch_mnt ELSE rch_val
           base == IF iter = 0 THEN [cell \in Cells |-> 0] ELSE arr
           new == IF iter < Len(idxs)
                  THEN [base EXCEPT ![PyIndex(idxs, iter)] = max_recharge]
                  ELSE base
       IN  /\ rch_mnt' = IF Cur.key = "rch_mnt" THEN new ELSE rch_mnt
           /\ rch_val' = IF Cur.key = "rch_val" THEN new ELSE rch_val
           /\ IF iter < Len(idxs)
              THEN iter' = iter + 1 /\ pc' = pc
              ELSE Advance
    /\ UNCHANGED <<notebook, sims, disk, log, asrvars, cellids, distance2d,
                   mountain_idxs, valley_idxs, rch_orig>>

\* A model or simulation object is handed to a utility (get_model_cell_count,
\* PlotCrossSection, PlotMapView): the utility reads it.
Utility ==
    /\ Cur.op = "utility"
    /\ log' = Append(log, Event("handoff", Cur.sim, Cur.key, <<"", 0>>))
    /\ Advance
    /\ UNCHANGED <<notebook, sims, disk, asrvars, wsvars>>

\* gwf.export_netcdf = ..., tdis.start_date_time = ...: an attribute of an
\* object of the simulation is assigned.
SetAttr ==
    /\ Cur.op = "setattr"
    /\ sims' = [sims EXCEPT ![Cur.sim].attrs = (Cur.key :> Cur.args) @@ @,
                            ![Cur.sim].rev = @ + 1]
    /\ log' = Append(log, Event("mutate", Cur.sim, Cur.key, <<"", 0>>))
    /\ Advance
    /\ UNCHANGED <<notebook, disk, asrvars, wsvars>>

\* The models of a simulation split in two partitions: name_0, name_1.
Partitioned(models) ==
    [i \in 1..(2 * Len(models)) |->
        [models[(i + 1) \div 2] EXCEPT
            !.name = @ \o (IF i % 2 = 1 THEN "_0" ELSE "_1")]]

\* splitter = Mf6Splitter(sim); split_sim = splitter.split_multi_model(mask):
\* a new simulation object is derived from sim as it is now.
SplitMultiModel ==
    /\ Cur.op = "split_multi_model"
    /\ sims' = [sims EXCEPT ![Cur.sim] =
                  [sims[Cur.key] EXCEPT !.sim_ws = ".",
                                        !.models = Partitioned(@),
                                        !.rev = 0, !.nwrite = 0, !.nrun = 0]]
    /\ log' = log \o << Event("handoff", Cur.key, "Mf6Splitter", <<"", 0>>),
                        Event("construct", Cur.sim, "", <<Cur.key, sims[Cur.key].rev>>) >>
    /\ Advance
    /\ UNCHANGED <<notebook, disk, asrvars, wsvars>>

\* split_sim.set_sim_path(split_dir)
SetSimPath ==
    /\ Cur.op = "set_sim_path"
    /\ sims' = [sims EXCEPT ![Cur.sim].sim_ws = Cur.args,
                            ![Cur.sim].rev = @ + 1]
    /\ log' = Append(log, Event("config", Cur.sim, "sim_ws", <<"", 0>>))
    /\ Advance
    /\ UNCHANGED <<notebook, disk, asrvars, wsvars>>

Next ==
    \/ KDTreeQuery
    \/ Classify
    \/ RchOrig
    \/ ForIdx
    \/ Utility
    \/ SetAttr
    \/ SplitMultiModel
    \/ SetSimPath
    \/ Params
    \/ MFSimulation
    \/ Package
    \/ Model
    \/ RegisterIms
    \/ Exchange
    \/ ForIlay
    \/ WriteSimulation
    \/ RunSimulation
    \/ Load
    \/ ForItime
    \/ RecoveryEfficiency

Spec == Init /\ [][Next]_vars

Done == Cur.op = "end"

(***************************************************************************)
(* Properties                                                              *)
(***************************************************************************)
Range(f) == {f[x] : x \in DOMAIN f}

RECURSIVE SumRates(_)
SumRates(lst) == IF lst = <<>> THEN 0 ELSE lst[1][2] + SumRates(Tail(lst))

HasPackage(s, key) == key \in DOMAIN sims[s].packages

\* The simulation object s has received its last builder call of the ASR build.
FullyBuilt(s) == sims[s].built /\ Len(sims[s].exchanges) = 1

\* The search loop of the ASR notebook has been left.
AfterSearch == notebook = "asr" /\ Cur.op \in {"recovery_efficiency", "end"}

\* The recovery-efficiency cell has been executed.
AfterRE == notebook = "asr" /\ Cur.op = "end"

ExtractionSteps == nstepin .. (nstepin + nstepout - 1)

\* The number of leading extraction steps whose extracted concentration is
\* not above the limit (the water extracted until the limit is first exceeded).
StepsBelowLimit ==
    Cardinality({j \in ExtractionSteps :
                    \A m \in nstepin..j : PyIndex(c, m) <= climit})

\* The volume extracted during those steps: from the end of the injection
\* (time tin) to the end of the last such step, at rate U.
VolumeBelowLimit ==
    (PyIndex(times, nstepin + StepsBelowLimit - 1) - tin) * U

\* C4: the recovery efficiency the notebook computes is the volume extracted
\* while the extracted concentration is below climit over the injected volume
\* tin * U, for every concentration series, also one that never exceeds climit.
C4_RecoveryEfficiency ==
    AfterRE => /\ Vinjected = tin * U
               /\ Vextracted = VolumeBelowLimit

\* C4, the part the code satisfies: whenever the series does exceed climit
\* during extraction the computed volumes are the defined ones.
C4_RecoveryEfficiencyWhenExceeded ==
    (AfterRE /\ \E j \in ExtractionSteps : PyIndex(c, j) > climit)
        => /\ Vinjected = tin * U
           /\ Vextracted = VolumeBelowLimit

\* C4: a run in which the extracted concentration never exceeds climit.
C4_NeverExceeds ==
    AfterRE /\ \A j \in ExtractionSteps : PyIndex(c, j) <= climit

\* C5: after the search loop itime lies in the extraction period, no earlier
\* extraction index has a concentration above climit, and if any extraction
\* index has one, itime is such an index (the first).
C5_FirstExceedance ==
    AfterSearch =>
        /\ itime \in ExtractionSteps
        /\ \A j \in nstepin..(itime - 1) : ~(PyIndex(c, j) > climit)
        /\ (\E j \in ExtractionSteps : PyIndex(c, j) > climit)
              => PyIndex(c, itime) > climit

C5_Witness ==
    AfterSearch /\ itime > nstepin /\ PyIndex(c, itime) > climit

\* The well list lst holds one entry per layer, at cell (ilay, 0, 0), in layer
\* order, each with rate r.
OnePerLayer(lst, r) ==
    /\ Len(lst) = nlay
    /\ \A il \in 0..(nlay - 1) : PyIndex(lst, il) = << <<il, 0, 0>>, r, cf >>

\* C7: in both ASR simulations the injection wells are one per layer at
\* (ilay, 0, 0), each with rate U / nlay and concentration cf, and the rates sum
\* to the total inflow U.
C7_InjectionEquallyDistributed ==
    \A s \in {"sim", "asrmodel.sim"} :
        (notebook = "asr" /\ HasPackage(s, "gwf.wel")) =>
            LET w == sims[s].packages["gwf.wel"].stress_period_data[0]
            IN  /\ \E r \in 0..U : r * nlay = U /\ OnePerLayer(w, r)
                /\ SumRates(w) = U

C7_Witness ==
    /\ notebook = "asr"
    /\ HasPackage("sim", "gwf.wel")
    /\ HasPackage("asrmodel.sim", "gwf.wel")

\* C8: in asrmodel every layer's well rate in stress period 1 is the negative
\* of its rate in stress period 0 at the same cell, and with tout = tin the
\* extracted volume equals the injected volume.
C8_ExtractionRateIsInjectionRate ==
    (notebook = "asr" /\ HasPackage("asrmodel.sim", "gwf.wel")) =>
        LET spd == sims["asrmodel.sim"].packages["gwf.wel"].stress_period_data
            pd == sims["asrmodel.sim"].packages["tdis"].perioddata
        IN  /\ DOMAIN spd = {0, 1}
            /\ Len(spd[0]) = nlay /\ Len(spd[1]) = nlay
            /\ \A i \in 1..nlay : /\ spd[1][i][1] = spd[0][i][1]
                                  /\ spd[1][i][2] = 0 - spd[0][i][2]
                                  /\ spd[0][i][2] > 0
            /\ tout = tin =>
                  (0 - SumRates(spd[1])) * pd[2][1] = SumRates(spd[0]) * pd[1][1]

C8_Witness ==
    /\ notebook = "asr"
    /\ HasPackage("asrmodel.sim", "gwf.wel")
    /\ tout = tin
    /\ SumRates(sims["asrmodel.sim"].packages["gwf.wel"].stress_period_data[1]) = 0 - U

\* C6: the simulation asrmodel builds differs from the injection-only
\* simulation in exactly two places: the time discretization (two stress periods
\* instead of one) and the well package's stress period data.  Every other
\* package, both models, the solver registrations and the exchange are equal.
C6_OnlyTwoModifications ==
    (notebook = "asr" /\ FullyBuilt("sim") /\ FullyBuilt("asrmodel.sim")) =>
        LET A == sims["sim"]
            B == sims["asrmodel.sim"]
        IN  /\ A.args = B.args
            /\ A.models = B.models
            /\ A.solutions = B.solutions
            /\ A.exchanges = B.exchanges
            /\ DOMAIN A.packages = DOMAIN B.packages
            /\ \A p \in DOMAIN A.packages \ {"tdis", "gwf.wel"} :
                  A.packages[p] = B.packages[p]
            \* the time discretization: two stress periods instead of one
            /\ A.packages["tdis"].nper = 1 /\ B.packages["tdis"].nper = 2
            /\ Len(A.packages["tdis"].perioddata) = 1
            /\ Len(B.packages["tdis"].perioddata) = 2
            /\ B.packages["tdis"].perioddata[1] = A.packages["tdis"].perioddata[1]
            /\ B.packages["tdis"].time_units = A.packages["tdis"].time_units
            \* the well package: stress period 1 is added
            /\ DOMAIN A.packages["gwf.wel"].stress_period_data = {0}
            /\ DOMAIN B.packages["gwf.wel"].stress_period_data = {0, 1}
            /\ B.packages["gwf.wel"].stress_period_data[0]
                  = A.packages["gwf.wel"].stress_period_data[0]
            /\ B.packages["gwf.wel"].model = A.packages["gwf.wel"].model
            /\ B.packages["gwf.wel"].auxiliary = A.packages["gwf.wel"].auxiliary
            /\ B.packages["gwf.wel"].pname = A.packages["gwf.wel"].pname

C6_Witness ==
    /\ notebook = "asr" /\ FullyBuilt("sim") /\ FullyBuilt("asrmodel.sim")
    /\ sims["asrmodel.sim"].packages["tdis"] # sims["sim"].packages["tdis"]
    /\ sims["asrmodel.sim"].packages["gwf.wel"] # sims["sim"].packages["gwf.wel"]

\* The recharge arrays of the watershed notebook have been filled.
AfterRecharge == notebook = "watershed" /\ sims["sim"].built

\* C9: every grid cell is either mountain (nearest-river distance above
\* dist_from_riv) or valley (at most dist_from_riv), never both and never
\* neither; rch_mnt + rch_val = rch_orig in every cell, one of the two being
\* max_recharge (the mountain array in a mountain cell) and the other 0.
C9_RechargePartition ==
    AfterRecharge =>
        /\ Len(mountain_idxs) = Cardinality(Range(mountain_idxs))
        /\ Len(valley_idxs) = Cardinality(Range(valley_idxs))
        /\ \A cell \in Cells :
              LET mnt == cell \in Range(mountain_idxs)
                  val == cell \in Range(valley_idxs)
                  far == distance2d[cell] > dist_from_riv * dist_from_riv
              IN  /\ mnt # val
                  /\ mnt = far
                  /\ rch_mnt[cell] + rch_val[cell] = rch_orig[cell]
                  /\ rch_orig[cell] = max_recharge
                  /\ rch_mnt[cell] = (IF mnt THEN max_recharge ELSE 0)
                  /\ rch_val[cell] = (IF val THEN max_recharge ELSE 0)

\* C9: a grid with mountain cells, valley cells and a cell exactly at
\* dist_from_riv from the nearest river cell.
C9_Witness ==
    /\ AfterRecharge
    /\ mountain_idxs # <<>>
    /\ valley_idxs # <<>>
    /\ \E cell \in Cells : distance2d[cell] = dist_from_riv * dist_from_riv

ModelNames(s) == {m.name : m \in Range(sims[s].models)}

ModelsOfType(s, t) == {i \in DOMAIN sims[s].models : sims[s].models[i].mtype = t}

\* C10: in the watershed simulation every exchange names models that exist
\* when it is created; once the simulation is written there is one flow model
\* and two exchanges, both GWF6-GWT6 with the flow model as model A, with
\* different file names, and every transport model is model B of exactly one.
C10_Exchanges ==
    notebook = "watershed" =>
        LET S == sims["sim"]
            X == S.exchanges
        IN  /\ \A i \in DOMAIN X : /\ X[i].exgmnamea \in ModelNames("sim")
                                   /\ X[i].exgmnameb \in ModelNames("sim")
            /\ S.nwrite > 0 =>
                  /\ Len(X) = 2
                  /\ Cardinality(ModelsOfType("sim", "gwf6")) = 1
                  /\ Cardinality(ModelsOfType("sim", "gwt6")) = 2
                  /\ X[1].filename # X[2].filename
                  /\ X[1].exgmnameb # X[2].exgmnameb
                  /\ \A i \in DOMAIN X :
                        /\ X[i].exgtype = "GWF6-GWT6"
                        /\ \E g \in ModelsOfType("sim", "gwf6") :
                              S.models[g].name = X[i].exgmnamea
                  /\ \A t \in ModelsOfType("sim", "gwt6") :
                        Cardinality({i \in DOMAIN X :
                                        X[i].exgmnameb = S.models[t].name}) = 1

C10_Witness ==
    /\ notebook = "watershed"
    /\ sims["sim"].nwrite > 0
    /\ {x.exgmnameb : x \in Range(sims["sim"].exchanges)} = {"gwt_mnt", "gwt_val"}

\* C1: every run_simulation on a simulation comes after a write_simulation on
\* that simulation with no configuration change to it in between, so that the
\* input the simulator reads is the simulation as it is; every load of output
\* through a simulation comes after a run of that simulation and reads what
\* that run produced.
C1_WriteRunLoad ==
    \A i \in DOMAIN log :
        /\ log[i].op = "run" =>
              /\ \E j \in 1..(i - 1) :
                    /\ log[j].op = "write"
                    /\ log[j].sim = log[i].sim
                    /\ \A m \in (j + 1)..(i - 1) :
                          log[m].sim = log[i].sim
                              => log[m].op \notin {"construct", "config", "mutate"}
              /\ log[i].src = <<log[i].sim, log[i].rev>>
        /\ log[i].op = "load" =>
              \E j \in 1..(i - 1) :
                  /\ log[j].op = "run"
                  /\ log[j].sim = log[i].sim
                  /\ log[i].src = log[j].src
                  /\ \A m \in (j + 1)..(i - 1) : log[m].op # "run"

\* C1: output has been loaded from the second simulation of a notebook.
C1_Witness ==
    \E i \in DOMAIN log :
        log[i].op = "load" /\ log[i].sim \in {"asrmodel.sim", "split_sim"}

Runs == {i \in DOMAIN log : log[i].op = "run"}

\* C2 as stated: a notebook executed to its last cell has invoked the
\* simulator exactly once.
C2_SingleRun == Done => Cardinality(Runs) = 1

\* C2 as amended: a notebook executed to its last cell has invoked the
\* simulator exactly twice, once on each of the two simulation objects it
\* builds; at no point has any simulation been run more than once.
C2_OneRunPerSimulation ==
    /\ \A s \in Sims : sims[s].nrun <= 1
    /\ \A s \in Sims : sims[s].nrun = Cardinality({i \in Runs : log[i].sim = s})
    /\ Done => /\ Cardinality(Runs) = 2
               /\ Cardinality({s \in Sims : sims[s].built}) = 2
               /\ \A s \in Sims : sims[s].built => sims[s].nrun = 1

C2_Witness ==
    Done /\ \E i \in Runs, j \in Runs : log[i].sim # log[j].sim

Writes == {i \in DOMAIN log : log[i].op = "write"}

\* Event j, after the write event i, touches the simulation that i wrote.
AfterWrite(i, j) ==
    /\ log[j].sim = log[i].sim
    /\ log[j].op \in {"config", "mutate", "handoff"}

\* C3 as stated: once write_simulation has been called on a simulation, no
\* object of it is mutated or handed to a further builder or utility.
C3_WriteThenDiscard ==
    \A i \in Writes : \A j \in (i + 1)..Len(log) : ~AfterWrite(i, j)

\* C3 as amended: the only simulation touched after its write_simulation is
\* the watershed's sim, by attribute assignments and by being handed to
\* utilities (the plotting classes, Mf6Splitter), and it is not written or run
\* again after that; the ASR simulations and split_sim are left alone.
C3_OnlyWatershedSimReused ==
    \A i \in Writes : \A j \in (i + 1)..Len(log) :
        AfterWrite(i, j) =>
            /\ notebook = "watershed"
            /\ log[j].sim = "sim"
            /\ log[j].op \in {"mutate", "handoff"}
            /\ \A m \in (j + 1)..Len(log) :
                  log[m].sim = "sim" => log[m].op \notin {"write", "run"}

\* C3: sim has been mutated after its write_simulation, handed to the
\* splitter, and split_sim has been written.
C3_Witness ==
    /\ notebook = "watershed"
    /\ sims["split_sim"].nwrite = 1
    /\ \E i \in Writes : \E j \in (i + 1)..Len(log) :
          AfterWrite(i, j) /\ log[j].op = "mutate"
    /\ \E i \in Writes : \E j \in (i + 1)..Len(log) :
          AfterWrite(i, j) /\ log[j].key = "Mf6Splitter"

C12_AboveLimitAtItime == AfterSearch => PyIndex(c, itime) > climit

\* C12: the search loop has ended without break, on a series that stays at or
\* below climit during the whole extraction.
C12_LoopExhausted ==
    /\ AfterSearch
    /\ itime = nstepin + nstepout - 1
    /\ \A j \in ExtractionSteps : PyIndex(c, j) <= climit

\* The ModflowIms packages of the notebooks.
ImsKeys == {"gwf_ims", "gwt_ims", "imsgwf", "imsgwt"}

\* The register_ims_package calls on simulation s that name the model.
SolversOf(s, name) ==
    {i \in DOMAIN sims[s].solutions : name \in Range(sims[s].solutions[i].models)}

SolverFiles(s, name) == {sims[s].solutions[i].file : i \in SolversOf(s, name)}

\* C13: in every simulation the notebooks build with builder calls, the
\* ModflowIms packages have different file names, no model is registered
\* twice, a flow model and a transport model are never registered with the
\* same solver file, and once the simulation is written every model is
\* registered with exactly one solver, whose file is that of a ModflowIms
\* package of the simulation.
C13_Solvers ==
    \A s \in {"sim", "asrmodel.sim"} :
        LET S == sims[s]
            ims == ImsKeys \cap DOMAIN S.packages
        IN  /\ \A p \in ims, q \in ims :
                  p # q => S.packages[p].filename # S.packages[q].filename
            /\ \A m \in Range(S.models) : Cardinality(SolversOf(s, m.name)) <= 1
            /\ \A g \in Range(S.models), t \in Range(S.models) :
                  (g.mtype = "gwf6" /\ t.mtype = "gwt6")
                      => SolverFiles(s, g.name) \cap SolverFiles(s, t.name) = {}
            /\ S.nwrite > 0 =>
                  /\ Cardinality(ims) = 2
                  /\ \A m \in Range(S.models) :
                        /\ Cardinality(SolversOf(s, m.name)) = 1
                        /\ SolverFiles(s, m.name)
                              \subseteq {S.packages[p].filename : p \in ims}
                  /\ \A i \in DOMAIN S.solutions :
                        Range(S.solutions[i].models) \subseteq ModelNames(s)

\* C13: the watershed simulation is written, its two transport models being
\* registered with the one transport solver.
C13_Witness ==
    /\ notebook = "watershed"
    /\ sims["sim"].nwrite > 0
    /\ SolverFiles("sim", "gwt_mnt") = {"gwt.ims"}
    /\ SolverFiles("sim", "gwt_val") = {"gwt.ims"}
    /\ SolverFiles("sim", "gwf") = {"gwf.ims"}

RchPackages == {"gwf.rch_original", "gwf.rch_mountain", "gwf.rch_valley"}

\* The key of the period data in force in stress period p, when data given
\* for a period persist until the next period that has data; NoPeriod before
\* the first period that has data.
NoPeriod == 0 - 1

InForce(data, p) ==
    LET given == {q \in DOMAIN data : q <= p}
    IN  IF given = {} THEN NoPeriod
        ELSE CHOOSE q \in given : \A r \in given : r <= q

\* The recharge rate package pkg applies to the cell when its period data of
\* key q are in force.
RechargeAt(pkg, q, cell) ==
    IF q = NoPeriod THEN 0 ELSE sims["sim"].packages[pkg].recharge[q][cell]

\* The tracer concentration of the recharge of package pkg in stress period p
\* (0 when the package carries no tracer).
TracerIn(pkg, p) ==
    LET P == sims["sim"].packages[pkg]
    IN  IF "aux" \notin DOMAIN P THEN 0
        ELSE LET q == InForce(P.aux, p)
             IN  IF q = NoPeriod THEN 0 ELSE P.aux[q]

\* C14: in every stress period 0..nper-1 of the watershed simulation each cell
\* receives max_recharge in total, from exactly one recharge package:
\* rch_original in period 0, which is the steady-state period, and
\* rch_mountain or rch_valley in the transient periods 1..nper-1, where
\* rch_original gives 0; tracer at concentration 1.0 enters in periods >= 1
\* only.
C14_RechargePerPeriod ==
    (notebook = "watershed" /\ RchPackages \subseteq DOMAIN sims["sim"].packages) =>
        LET P == sims["sim"].packages
            mnt == Range(mountain_idxs)
            \* the keys of the recharge and tracer data in force in period p
            keys(p) == [g \in RchPackages |->
                          <<InForce(P[g].recharge, p),
                            IF "aux" \in DOMAIN P[g] THEN InForce(P[g].aux, p)
                            ELSE NoPeriod>>]
        IN  /\ P["tdis"].nper = nper
            /\ Len(P["tdis"].perioddata) = nper
            /\ nper > 1
            \* every period after period 1 has the data of period 1 in force
            /\ \A p \in 1..(nper - 1) :
                  /\ keys(p) = keys(1)
                  /\ InForce(P["gwf.sto"].steady_state, p)
                        < InForce(P["gwf.sto"].transient, p)
            /\ InForce(P["gwf.sto"].steady_state, 0)
                  > InForce(P["gwf.sto"].transient, 0)
            /\ \A p \in {0, 1} :
                  LET key == keys(p)
                  IN  \A cell \in Cells :
                        LET from == {g \in RchPackages :
                                        RechargeAt(g, key[g][1], cell) # 0}
                        IN  /\ Cardinality(from) = 1
                            /\ \A g \in from :
                                  /\ RechargeAt(g, key[g][1], cell) = max_recharge
                                  /\ TracerIn(g, p) = (IF p = 0 THEN 0 ELSE 10)
                            /\ p = 0 => from = {"gwf.rch_original"}
                            /\ p = 1 =>
                                  from = (IF cell \in mnt
                                          THEN {"gwf.rch_mountain"}
                                          ELSE {"gwf.rch_valley"})

\* C14: the three recharge packages are built, on a grid that has mountain
\* cells and valley cells, and the simulation is written.
C14_Witness ==
    /\ notebook = "watershed"
    /\ RchPackages \subseteq DOMAIN sims["sim"].packages
    /\ sims["sim"].nwrite > 0
    /\ mountain_idxs # <<>>
    /\ valley_idxs # <<>>

====
